---- MODULE Spec2Model ----
(***************************************************************************)
(* The CSS selector builder of src/objects-tasks.js: the class             *)
(* MySuperBaseElementSelector and the facade cssSelectorBuilder.           *)
(*                                                                         *)
(* The state is the heap of builder objects a caller has created, each     *)
(* with the fields the constructor sets.  Every method is an operator from *)
(* the receiver (and the arguments) to the receiver after the call, the    *)
(* way the call ended ("ok", or the error it threw) and the value          *)
(* returned; an action is one call of one method by the caller.            *)
(***************************************************************************)
EXTENDS Integers, Sequences, FiniteSets, TLC

(* ------------------------------ bounds -------------------------------- *)
MaxObjs == 3      \* builders the caller creates
MaxFrags == 2     \* entries of one builder's selectorsArr
MaxCalls == 3     \* calls the caller makes in all

Values == {"a", "#b"}          \* the value argument (never validated)
Combinators == {" ", "+", "zz"} \* the combinator argument (never validated)

(* --------------------------- the class -------------------------------- *)
NoTag == "false"               \* prevTag before any append (JS false)

Tags == {"element", "id", "class", "attribute", "pseudoClass", "pseudoElement"}

orderTagList ==
  [t \in Tags |->
     CASE t = "element" -> 0
       [] t = "id" -> 1
       [] t = "class" -> 2
       [] t = "attribute" -> 3
       [] t = "pseudoClass" -> 4
       [] t = "pseudoElement" -> 5]

ErrOrder == "OrderError"   \* 'Selector parts should be arranged in the following order: ...'
ErrUniq == "UniqueError"   \* 'Element, id and pseudo-element should not occur more then one time ...'

\* A constructor that starts with the element flag already set.
NewSelector_staleFlags ==
  [selectorsArr |-> <<>>,
   output |-> "",
   uniqElObj |-> [element |-> TRUE, id |-> FALSE, pseudoElement |-> FALSE],
   prevTag |-> "false"]

\* new MySuperBaseElementSelector()
NewSelector ==
  [selectorsArr |-> <<>>,
   output |-> "",
   uniqElObj |-> [element |-> FALSE, id |-> FALSE, pseudoElement |-> FALSE],
   prevTag |-> NoTag]

\* A call's end: the receiver after it, how it ended, what it returned.
Done(obj, ret) == [obj |-> obj, outcome |-> "ok", ret |-> ret]
Throw(obj, err) == [obj |-> obj, outcome |-> err, ret |-> ""]

\* The condition of the first if of every append method.
WrongOrder(obj, tag) ==
  /\ obj.prevTag # NoTag
  /\ orderTagList[tag] < orderTagList[obj.prevTag]

\* Array.prototype.join('')
RECURSIVE Join(_)
Join(arr) == IF arr = <<>> THEN "" ELSE Head(arr) \o Join(Tail(arr))

Push(obj, str) == [obj EXCEPT !.selectorsArr = Append(@, str)]

\* element() without its ordering check.
element_noOrderCheck(obj, value) ==
  LET o1 == [obj EXCEPT !.prevTag = "element"]
  IN IF o1.uniqElObj.element THEN Throw(o1, ErrUniq)
     ELSE Done(Push([o1 EXCEPT !.uniqElObj.element = TRUE], value), "this")

\* element() with its two checks in the other order.
element_uniqCheckFirst(obj, value) ==
  IF obj.uniqElObj.element THEN Throw(obj, ErrUniq)
  ELSE IF WrongOrder(obj, "element") THEN Throw(obj, ErrOrder)
  ELSE Done(Push([obj EXCEPT !.prevTag = "element", !.uniqElObj.element = TRUE],
                 value), "this")

\* element() without its occurrence check.
element_noUniqCheck(obj, value) ==
  IF WrongOrder(obj, "element") THEN Throw(obj, ErrOrder)
  ELSE Done(Push([obj EXCEPT !.prevTag = "element", !.uniqElObj.element = TRUE],
                 value), "this")

element(obj, value) ==
  IF WrongOrder(obj, "element") THEN Throw(obj, ErrOrder)
  ELSE LET o1 == [obj EXCEPT !.prevTag = "element"]
       IN IF o1.uniqElObj.element THEN Throw(o1, ErrUniq)
          ELSE Done(Push([o1 EXCEPT !.uniqElObj.element = TRUE], value), "this")

\* id() with its two checks in the other order.
id_uniqCheckFirst(obj, value) ==
  IF obj.uniqElObj.id THEN Throw(obj, ErrUniq)
  ELSE IF WrongOrder(obj, "id") THEN Throw(obj, ErrOrder)
  ELSE Done(Push([obj EXCEPT !.prevTag = "id", !.uniqElObj.id = TRUE],
                 "#" \o value), "this")

\* id() that never sets its seen flag.
id_flagNotSet(obj, value) ==
  IF WrongOrder(obj, "id") THEN Throw(obj, ErrOrder)
  ELSE LET o1 == [obj EXCEPT !.prevTag = "id"]
       IN IF o1.uniqElObj.id THEN Throw(o1, ErrUniq)
          ELSE Done(Push(o1, "#" \o value), "this")

id(obj, value) ==
  IF WrongOrder(obj, "id") THEN Throw(obj, ErrOrder)
  ELSE LET o1 == [obj EXCEPT !.prevTag = "id"]
       IN IF o1.uniqElObj.id THEN Throw(o1, ErrUniq)
          ELSE Done(Push([o1 EXCEPT !.uniqElObj.id = TRUE], "#" \o value), "this")

\* class() whose ordering check also rejects the category of prevTag itself.
class_strictOrder(obj, value) ==
  IF obj.prevTag # NoTag /\ orderTagList["class"] <= orderTagList[obj.prevTag]
    THEN Throw(obj, ErrOrder)
  ELSE Done(Push([obj EXCEPT !.prevTag = "class"], "." \o value), "this")

class(obj, value) ==
  IF WrongOrder(obj, "class") THEN Throw(obj, ErrOrder)
  ELSE Done(Push([obj EXCEPT !.prevTag = "class"], "." \o value), "this")

\* attr() without its ordering check.
attr_noOrderCheck(obj, value) ==
  Done(Push([obj EXCEPT !.prevTag = "attribute"], "[" \o value \o "]"), "this")

attr(obj, value) ==
  IF WrongOrder(obj, "attribute") THEN Throw(obj, ErrOrder)
  ELSE Done(Push([obj EXCEPT !.prevTag = "attribute"], "[" \o value \o "]"), "this")

pseudoClass(obj, value) ==
  IF WrongOrder(obj, "pseudoClass") THEN Throw(obj, ErrOrder)
  ELSE Done(Push([obj EXCEPT !.prevTag = "pseudoClass"], ":" \o value), "this")

\* pseudoElement() that pushes before its occurrence check.
pseudoElement_pushFirst(obj, value) ==
  IF WrongOrder(obj, "pseudoElement") THEN Throw(obj, ErrOrder)
  ELSE LET o1 == Push([obj EXCEPT !.prevTag = "pseudoElement"], "::" \o value)
       IN IF o1.uniqElObj.pseudoElement THEN Throw(o1, ErrUniq)
          ELSE Done([o1 EXCEPT !.uniqElObj.pseudoElement = TRUE], "this")

pseudoElement(obj, value) ==
  IF WrongOrder(obj, "pseudoElement") THEN Throw(obj, ErrOrder)
  ELSE LET o1 == [obj EXCEPT !.prevTag = "pseudoElement"]
       IN IF o1.uniqElObj.pseudoElement THEN Throw(o1, ErrUniq)
          ELSE Done(Push([o1 EXCEPT !.uniqElObj.pseudoElement = TRUE], "::" \o value), "this")

\* Array.prototype.join() with its default separator.
RECURSIVE JoinComma(_)
JoinComma(arr) ==
  IF arr = <<>> THEN ""
  ELSE IF Len(arr) = 1 THEN Head(arr)
  ELSE Head(arr) \o "," \o JoinComma(Tail(arr))

stringify_defaultJoin(obj) == Done(obj, JoinComma(obj.selectorsArr))

\* stringify() that accumulates the rendering in this.output and returns it.
stringify_viaOutput(obj) ==
  LET o1 == [obj EXCEPT !.output = @ \o Join(obj.selectorsArr)]
  IN Done(o1, o1.output)

stringify(obj) == Done(obj, Join(obj.selectorsArr))

\* combine() that does not pad a combinator that is itself a space.
combine_singleSpace(h, self, selector1, combinator, selector2) ==
  LET sep == IF combinator = " " THEN " " ELSE " " \o combinator \o " "
  IN [h EXCEPT ![self] = Push(@, stringify(h[selector1]).ret \o sep
                                   \o stringify(h[selector2]).ret)]

\* combine() that puts no spaces around the combinator.
combine_noPad(h, self, selector1, combinator, selector2) ==
  [h EXCEPT ![self] = Push(@, stringify(h[selector1]).ret \o combinator
                                \o stringify(h[selector2]).ret)]

\* combine() that also moves the fragments of selector2 into selector1.
combine_mergesOperands(h, self, selector1, combinator, selector2) ==
  LET h1 == [h EXCEPT ![self] = Push(@, stringify(h[selector1]).ret \o " "
                                     \o combinator \o " "
                                     \o stringify(h[selector2]).ret)]
  IN [h1 EXCEPT ![selector1].selectorsArr = @ \o h[selector2].selectorsArr]

\* combine() whose receiver takes over the bookkeeping of selector2.
combine_inheritsState(h, self, selector1, combinator, selector2) ==
  [h EXCEPT ![self] =
     [Push(@, stringify(h[selector1]).ret \o " " \o combinator \o " "
                \o stringify(h[selector2]).ret)
        EXCEPT !.prevTag = h[selector2].prevTag,
               !.uniqElObj = h[selector2].uniqElObj]]

\* this.combine(selector1, combinator, selector2) on the heap h: the operands
\* are references, each is asked for its rendering (selector1 first), and the
\* joined string is pushed onto the receiver last.
combine(h, self, selector1, combinator, selector2) ==
  LET r1 == stringify(h[selector1])
      h1 == [h EXCEPT ![selector1] = r1.obj]
      r2 == stringify(h1[selector2])
      h2 == [h1 EXCEPT ![selector2] = r2.obj]
  IN [h2 EXCEPT ![self] = Push(@, r1.ret \o " " \o combinator \o " " \o r2.ret)]

\* The append method a tag names.
AppendMethod(tag, obj, value) ==
  CASE tag = "element" -> element(obj, value)
    [] tag = "id" -> id(obj, value)
    [] tag = "class" -> class(obj, value)
    [] tag = "attribute" -> attr(obj, value)
    [] tag = "pseudoClass" -> pseudoClass(obj, value)
    [] tag = "pseudoElement" -> pseudoElement(obj, value)

(* ------------------------------ state --------------------------------- *)
VARIABLES
  heap,    \* the builders created so far, in creation order
  log,     \* per builder, one entry per push onto its selectorsArr (history)
  last,    \* the call made last: its arguments, its receiver before it, its end
  calls,   \* calls made so far
  frame    \* the call of a utility function in progress: arguments, locals, result

vars == <<heap, log, last, calls, frame>>

\* No utility function is running.
NoFrame == [fn |-> "none"]

Objs == DOMAIN heap

\* The builders the caller can make one more call on.
Callable == IF calls < MaxCalls THEN Objs ELSE {}

NoCall ==
  [op |-> "none", self |-> 0, tag |-> "", value |-> "", s1 |-> 0, s2 |-> 0,
   fresh |-> FALSE, pre |-> NewSelector, outcome |-> "ok", ret |-> ""]

\* No builder exists yet.
NoBuilders ==
  /\ heap = <<>>
  /\ log = <<>>
  /\ last = NoCall
  /\ calls = 0

Init ==
  /\ NoBuilders
  /\ frame = NoFrame

\* One entry of log: the method that pushed, its value (the combinator for
\* combine) and, for combine, the two renderings it joined.
Entry(tag, value, left, right) ==
  [tag |-> tag, value |-> value, left |-> left, right |-> right]

\* The receiver of a call: a builder of the heap or, for a call through the
\* facade cssSelectorBuilder, the one it constructs first.
Fresh == Len(heap) + 1
HeapAt(self) == IF self = Fresh THEN Append(heap, NewSelector) ELSE heap
LogAt(self) == IF self = Fresh THEN Append(log, <<>>) ELSE log

\* A call on `self` that leaves the heap h: the log gets `entry` if the call
\* pushed onto the receiver's selectorsArr.
Effect(self, h, entry) ==
  LET pushed == Len(h[self].selectorsArr) > Len(HeapAt(self)[self].selectorsArr)
  IN /\ calls < MaxCalls
     /\ Len(h) <= MaxObjs
     /\ Len(h[self].selectorsArr) <= MaxFrags
     /\ calls' = calls + 1
     /\ frame' = frame
     /\ heap' = h
     /\ log' = IF pushed THEN [LogAt(self) EXCEPT ![self] = Append(@, entry)]
                         ELSE LogAt(self)

\* self.<tag>(value)
CallAppend(self, tag, value) ==
  LET r == AppendMethod(tag, HeapAt(self)[self], value)
  IN /\ Effect(self, [HeapAt(self) EXCEPT ![self] = r.obj], Entry(tag, value, "", ""))
     /\ last' = [NoCall EXCEPT !.op = "append", !.self = self, !.tag = tag,
                               !.value = value, !.fresh = (self = Fresh),
                               !.pre = HeapAt(self)[self],
                               !.outcome = r.outcome, !.ret = r.ret]

Element == \E self \in Callable, v \in Values : CallAppend(self, "element", v)
Id == \E self \in Callable, v \in Values : CallAppend(self, "id", v)
Class == \E self \in Callable, v \in Values : CallAppend(self, "class", v)
Attr == \E self \in Callable, v \in Values : CallAppend(self, "attribute", v)
PseudoClass == \E self \in Callable, v \in Values : CallAppend(self, "pseudoClass", v)
PseudoElement == \E self \in Callable, v \in Values : CallAppend(self, "pseudoElement", v)

\* cssSelectorBuilder.<tag>(value): new MySuperBaseElementSelector().<tag>(value)
BuilderElement == \E self \in {Fresh}, v \in Values : CallAppend(self, "element", v)
BuilderId == \E self \in {Fresh}, v \in Values : CallAppend(self, "id", v)
BuilderClass == \E self \in {Fresh}, v \in Values : CallAppend(self, "class", v)
BuilderAttr == \E self \in {Fresh}, v \in Values : CallAppend(self, "attribute", v)
BuilderPseudoClass == \E self \in {Fresh}, v \in Values : CallAppend(self, "pseudoClass", v)
BuilderPseudoElement == \E self \in {Fresh}, v \in Values : CallAppend(self, "pseudoElement", v)

\* self.stringify()
Stringify ==
  \E self \in Callable :
    LET r == stringify(heap[self])
    IN /\ Effect(self, [heap EXCEPT ![self] = r.obj], Entry("stringify", "", "", ""))
       /\ last' = [NoCall EXCEPT !.op = "stringify", !.self = self,
                                 !.pre = heap[self],
                                 !.outcome = r.outcome, !.ret = r.ret]

\* self.combine(selector1, combinator, selector2)
CallCombine(self, s1, c, s2) ==
  /\ Effect(self, combine(HeapAt(self), self, s1, c, s2),
            Entry("combine", c, stringify(heap[s1]).ret, stringify(heap[s2]).ret))
  /\ last' = [NoCall EXCEPT !.op = "combine", !.self = self, !.value = c,
                            !.s1 = s1, !.s2 = s2, !.fresh = (self = Fresh),
                            !.pre = HeapAt(self)[self]]

Combine ==
  \E self \in Callable, s1 \in Objs, s2 \in Objs, c \in Combinators :
    CallCombine(self, s1, c, s2)

\* cssSelectorBuilder.combine(selector1, combinator, selector2)
BuilderCombine ==
  \E self \in {Fresh}, s1 \in Objs, s2 \in Objs, c \in Combinators :
    CallCombine(self, s1, c, s2)

Next ==
  \/ BuilderElement \/ BuilderId \/ BuilderClass
  \/ BuilderAttr \/ BuilderPseudoClass \/ BuilderPseudoElement
  \/ Element \/ Id \/ Class \/ Attr \/ PseudoClass \/ PseudoElement
  \/ Stringify
  \/ BuilderCombine \/ Combine

Spec == Init /\ [][Next]_vars

(* ------------------------- sellTickets(queue) ------------------------- *)
MaxQueue == 3    \* customers in the queue

Bills == {25, 50, 100}

Queues == UNION {[1..n -> Bills] : n \in 0..MaxQueue}

TicketsInit ==
  /\ NoBuilders
  /\ \E q \in Queues :
       frame = [fn |-> "sellTickets", queue |-> q, wallet |-> 0, isCan |-> TRUE,
                index |-> 0, pc |-> "forEach", ret |-> FALSE]

\* One call of the forEach callback: (el, index) with el = queue[index].
SellNext ==
  /\ frame.pc = "forEach"
  /\ frame.index < Len(frame.queue)
  /\ LET el == frame.queue[frame.index + 1]
     IN frame' = [frame EXCEPT
                    !.isCan = IF frame.index # 0 /\ el > frame.wallet THEN FALSE ELSE @,
                    !.wallet = @ + el,
                    !.index = @ + 1]
  /\ UNCHANGED <<heap, log, last, calls>>

\* return isCan
SellReturn ==
  /\ frame.pc = "forEach"
  /\ frame.index = Len(frame.queue)
  /\ frame' = [frame EXCEPT !.pc = "done", !.ret = frame.isCan]
  /\ UNCHANGED <<heap, log, last, calls>>

TicketsNext == SellNext \/ SellReturn

SpecTickets == TicketsInit /\ [][TicketsNext]_vars

(* ------------------------ sortCitiesArray(arr) ------------------------ *)
MaxCities == 2   \* records in the array

\* Strings as sequences of char codes, the way < and > compare them.
Names == {<<1>>, <<2>>, <<2, 1>>}

Cities == [country : Names, city : Names]

CityArrays == UNION {[1..n -> Cities] : n \in 0..MaxCities}

\* s > t on strings: by code unit, a proper prefix being the smaller.
RECURSIVE StrGreater(_, _)
StrGreater(s, t) ==
  IF s = <<>> THEN FALSE
  ELSE IF t = <<>> THEN TRUE
  ELSE IF Head(s) # Head(t) THEN Head(s) > Head(t)
  ELSE StrGreater(Tail(s), Tail(t))

\* (a, b) => (a.country + a.city > b.country + b.city ? 1 : -1)
compareFn(a, b) ==
  IF StrGreater(a.country \o a.city, b.country \o b.city) THEN 1 ELSE -1

Orderings(n) == {p \in [1..n -> 1..n] : \A i, j \in 1..n : p[i] = p[j] => i = j}

\* arr.sort(compareFn): the array reordered so that compareFn puts no
\* element after a later one; the order of elements compareFn does
\* not separate (it never returns 0) is the engine's choice.
SortResults(arr) ==
  {[i \in 1..Len(arr) |-> arr[p[i]]] : p \in
     {q \in Orderings(Len(arr)) :
        \A i, j \in 1..Len(arr) : i < j => compareFn(arr[q[i]], arr[q[j]]) <= 0}}

CitiesInit ==
  /\ NoBuilders
  /\ \E a \in CityArrays :
       frame = [fn |-> "sortCitiesArray", input |-> a, arr |-> a,
                pc |-> "call", ret |-> <<>>]

\* return arr.sort(...): arr is sorted in place and returned
SortCities ==
  /\ frame.pc = "call"
  /\ frame.fn = "sortCitiesArray"
  /\ \E sorted \in SortResults(frame.arr) :
       frame' = [frame EXCEPT !.arr = sorted, !.ret = sorted, !.pc = "done"]
  /\ UNCHANGED <<heap, log, last, calls>>

SpecCities == CitiesInit /\ [][SortCities]_vars

(* ----------------------- flat objects with numbers -------------------- *)
\* An object is the sequence of its own properties in insertion order, each
\* [key, value], no key twice (the keys are not array indices).
Keys == {"a", "b"}

HasKey(obj, key) == \E i \in DOMAIN obj : obj[i].key = key
Get(obj, key) == obj[CHOOSE i \in DOMAIN obj : obj[i].key = key].value
KeySet(obj) == {obj[i].key : i \in DOMAIN obj}

\* obj[key] = value
Set(obj, key, value) ==
  IF HasKey(obj, key)
    THEN [i \in DOMAIN obj |->
            IF obj[i].key = key THEN [key |-> key, value |-> value] ELSE obj[i]]
    ELSE Append(obj, [key |-> key, value |-> value])

FlatObjects(vals) ==
  {o \in UNION {[1..n -> [key : Keys, value : vals]] : n \in 0..Cardinality(Keys)} :
     \A i, j \in DOMAIN o : o[i].key = o[j].key => i = j}

(* ---------------------- compareObjects(obj1, obj2) -------------------- *)
CompareValues == {1, 2}

\* Number::toString of the integers the model uses.
NumberToString(n) ==
  CASE n = 0 -> "0" [] n = 1 -> "1" [] n = 2 -> "2" [] n = 3 -> "3"
    [] n = -1 -> "-1" [] n = -2 -> "-2" [] n = -3 -> "-3"

\* JSON.stringify of a flat object: its properties in insertion order.
RECURSIVE JSONProperties(_)
JSONProperties(obj) ==
  IF obj = <<>> THEN ""
  ELSE "\"" \o Head(obj).key \o "\":" \o NumberToString(Head(obj).value)
         \o (IF Len(obj) > 1 THEN "," ELSE "") \o JSONProperties(Tail(obj))

JSONStringify(obj) == "{" \o JSONProperties(obj) \o "}"

compareObjects(obj1, obj2) == JSONStringify(obj1) = JSONStringify(obj2)

CompareInit ==
  /\ NoBuilders
  /\ \E o1 \in FlatObjects(CompareValues), o2 \in FlatObjects(CompareValues) :
       frame = [fn |-> "compareObjects", obj1 |-> o1, obj2 |-> o2,
                pc |-> "call", ret |-> FALSE]

CompareObjects ==
  /\ frame.pc = "call"
  /\ frame.fn = "compareObjects"
  /\ frame' = [frame EXCEPT !.ret = compareObjects(frame.obj1, frame.obj2),
                            !.pc = "done"]
  /\ UNCHANGED <<heap, log, last, calls>>

SpecCompare == CompareInit /\ [][CompareObjects]_vars

(* ------------------------ mergeObjects(objects) ----------------------- *)
MaxMerge == 2    \* objects in the array

MergeValues == {-1, 0, 1}

\* The callback of the inner forEach that assigns and never adds.
mergeEntry_noSum(newArr, key, value) == Set(newArr, key, value)

\* The callback of the inner forEach: newArr[key] is truthy when the key is
\* there with a value other than 0.
mergeEntry(newArr, key, value) ==
  IF HasKey(newArr, key) /\ Get(newArr, key) # 0
    THEN Set(newArr, key, Get(newArr, key) + value)
    ELSE Set(newArr, key, value)

\* Object.entries(el).forEach(...)
RECURSIVE mergeEntries(_, _)
mergeEntries(newArr, el) ==
  IF el = <<>> THEN newArr
  ELSE mergeEntries(mergeEntry(newArr, Head(el).key, Head(el).value), Tail(el))

MergeInit ==
  /\ NoBuilders
  /\ \E objs \in UNION {[1..n -> FlatObjects(MergeValues)] : n \in 0..MaxMerge} :
       frame = [fn |-> "mergeObjects", objects |-> objs, newArr |-> <<>>,
                index |-> 0, pc |-> "forEach", ret |-> <<>>]

\* One call of the outer forEach callback, with el = objects[index].
MergeNext ==
  /\ frame.pc = "forEach"
  /\ frame.fn = "mergeObjects"
  /\ frame.index < Len(frame.objects)
  /\ frame' = [frame EXCEPT
                 !.newArr = mergeEntries(@, frame.objects[frame.index + 1]),
                 !.index = @ + 1]
  /\ UNCHANGED <<heap, log, last, calls>>

\* return newArr
MergeReturn ==
  /\ frame.pc = "forEach"
  /\ frame.fn = "mergeObjects"
  /\ frame.index = Len(frame.objects)
  /\ frame' = [frame EXCEPT !.pc = "done", !.ret = frame.newArr]
  /\ UNCHANGED <<heap, log, last, calls>>

MergeStep == MergeNext \/ MergeReturn

SpecMerge == MergeInit /\ [][MergeStep]_vars

(* ----------------------- vocabulary of the claims --------------------- *)
Singletons == {"element", "id", "pseudoElement"}

\* The log of the receiver of the last call as it was before that call.
PreLog ==
  IF Len(heap[last.self].selectorsArr) > Len(last.pre.selectorsArr)
    THEN SubSeq(log[last.self], 1, Len(log[last.self]) - 1)
    ELSE log[last.self]

\* The categories of the fragments of a log, in append order.
RECURSIVE Kinds(_)
Kinds(l) ==
  IF l = <<>> THEN <<>>
  ELSE IF Head(l).tag \in Tags THEN <<Head(l).tag>> \o Kinds(Tail(l))
  ELSE Kinds(Tail(l))

\* lastKind: the category of the fragment appended last, "false" if none.
LastKind(l) == IF Kinds(l) = <<>> THEN NoTag ELSE Kinds(l)[Len(Kinds(l))]

Seen(l, tag) == \E i \in DOMAIN l : l[i].tag = tag

IsAppend == last.op = "append"

(* ------------------------------ claims -------------------------------- *)

\* C1: an append whose category order index is strictly less than that of
\* lastKind raises the ordering error at that call; stringify raises nothing.
C1_OrderErrorAtCall ==
  /\ (/\ IsAppend
      /\ LastKind(PreLog) # NoTag
      /\ orderTagList[last.tag] < orderTagList[LastKind(PreLog)])
       => last.outcome = ErrOrder
  /\ last.op = "stringify" => last.outcome = "ok"

C1_Witness ==
  /\ IsAppend
  /\ Kinds(PreLog) = <<"id">>
  /\ last.tag = "element"
  /\ last.outcome = ErrOrder

\* C2 as stated: an append of element, id or pseudoElement on a builder that
\* already holds a fragment of that category raises the duplicate error,
\* whatever was appended in between.
C2_SecondSingletonIsUniqueError ==
  (IsAppend /\ last.tag \in Singletons /\ Seen(PreLog, last.tag))
    => last.outcome = ErrUniq

\* C2 amended: such an append always raises: the duplicate error when the
\* category is also lastKind, the ordering error when a fragment of a later
\* category was appended in between.
C2_SecondSingletonRaises ==
  (IsAppend /\ last.tag \in Singletons /\ Seen(PreLog, last.tag))
    => last.outcome = (IF LastKind(PreLog) = last.tag THEN ErrUniq ELSE ErrOrder)

C2_Witness ==
  /\ IsAppend
  /\ Kinds(PreLog) = <<"element", "id">>
  /\ last.tag = "id"
  /\ last.outcome = ErrUniq

\* C3: the categories of the fragments a builder holds, in append order, have
\* non-decreasing order index, failed appends included; every entry of
\* selectorsArr is one logged push.
C3_FragmentsOrdered ==
  \A o \in Objs :
    /\ Len(log[o]) = Len(heap[o].selectorsArr)
    /\ \A i, j \in DOMAIN Kinds(log[o]) :
         i < j => orderTagList[Kinds(log[o])[i]] <= orderTagList[Kinds(log[o])[j]]

C3_Witness ==
  /\ IsAppend
  /\ last.outcome # "ok"
  /\ Kinds(log[last.self]) = <<"class", "pseudoClass">>

\* C4: a builder holds at most one element, one id and one pseudoElement
\* fragment, whatever calls were made on it.
C4_SingletonsOnce ==
  \A o \in Objs : \A t \in Singletons :
    Cardinality({i \in DOMAIN log[o] : log[o][i].tag = t}) <= 1

C4_Witness ==
  /\ IsAppend
  /\ last.tag = "element"
  /\ last.outcome = ErrUniq
  /\ Kinds(log[last.self]) = <<"element">>

\* The fragment the spec gives a category and a value.
Rendered(e) ==
  CASE e.tag = "element" -> e.value
    [] e.tag = "id" -> "#" \o e.value
    [] e.tag = "class" -> "." \o e.value
    [] e.tag = "attribute" -> "[" \o e.value \o "]"
    [] e.tag = "pseudoClass" -> ":" \o e.value
    [] e.tag = "pseudoElement" -> "::" \o e.value

RECURSIVE Concat(_)
Concat(l) == IF l = <<>> THEN "" ELSE Rendered(Head(l)) \o Concat(Tail(l))

OnlyFragments(l) == \A i \in DOMAIN l : l[i].tag \in Tags

\* C5: stringify returns the fragments formatted by category, concatenated
\* in append order with no separator.
C5_StringifyIsPrefixedConcat ==
  /\ \A o \in Objs :
       OnlyFragments(log[o]) => stringify(heap[o]).ret = Concat(log[o])
  /\ (last.op = "stringify" /\ OnlyFragments(log[last.self]))
       => last.ret = Concat(log[last.self])

C5_Witness ==
  /\ last.op = "stringify"
  /\ Kinds(log[last.self]) = <<"class", "class">>
  /\ last.ret = ".#b.a"

\* C6: an append that does not go backward in order and does not repeat a
\* singleton category raises nothing and adds its fragment, whatever the value.
C6_NoOtherValidation ==
  (/\ IsAppend
   /\ \/ LastKind(PreLog) = NoTag
      \/ orderTagList[last.tag] >= orderTagList[LastKind(PreLog)]
   /\ ~(last.tag \in Singletons /\ Seen(PreLog, last.tag)))
    => /\ last.outcome = "ok"
       /\ Len(heap[last.self].selectorsArr) = Len(last.pre.selectorsArr) + 1

C6_Witness ==
  /\ IsAppend
  /\ last.tag = "class"
  /\ last.value = "#b"
  /\ LastKind(PreLog) = "class"
  /\ last.outcome = "ok"

FacadeCombine == last.op = "combine" /\ last.fresh

\* C7: the builder cssSelectorBuilder.combine(A, t, B) returns renders as
\* A's rendering, a space, t, a space, B's rendering, for every string t;
\* with t a space that is three spaces between the two renderings.
C7_CombineRendering ==
  FacadeCombine =>
    LET a == stringify(heap[last.s1]).ret
        b == stringify(heap[last.s2]).ret
        c == stringify(heap[last.self]).ret
    IN /\ c = a \o " " \o last.value \o " " \o b
       /\ last.value = " " => c = a \o "   " \o b

C7_Witness ==
  /\ FacadeCombine
  /\ last.value = " "
  /\ last.s1 # last.s2
  /\ stringify(heap[last.self]).ret = "a   ##b"

\* A builder that is the untouched result of cssSelectorBuilder.combine.
CombineResult(o) == Len(log[o]) = 1 /\ log[o][1].tag = "combine"

\* C8: a combine result used as the left or the right operand of another
\* combine is nested as its string: the outer result renders as the three
\* renderings joined by " t1 " and " t2 ".
C8_CombineNests ==
  FacadeCombine =>
    LET x == last.s1
        y == last.s2
        c == stringify(heap[last.self]).ret
    IN /\ CombineResult(x) =>
            c = log[x][1].left \o " " \o log[x][1].value \o " " \o log[x][1].right
                  \o " " \o last.value \o " " \o stringify(heap[y]).ret
       /\ CombineResult(y) =>
            c = stringify(heap[x]).ret \o " " \o last.value \o " "
                  \o log[y][1].left \o " " \o log[y][1].value \o " " \o log[y][1].right

C8_Witness ==
  /\ FacadeCombine
  /\ CombineResult(last.s1)
  /\ ~CombineResult(last.s2)
  /\ log[last.s1][1].value # last.value

\* C9: stringify leaves its receiver as it was, and a second call right
\* after it returns the same string.
C9_StringifyPure ==
  last.op = "stringify" =>
    /\ heap[last.self] = last.pre
    /\ stringify(heap[last.self]).ret = last.ret
    /\ stringify(heap[last.self]).obj = last.pre

C9_Witness ==
  /\ last.op = "stringify"
  /\ Len(heap[last.self].selectorsArr) = 2
  /\ heap[last.self].uniqElObj.id

\* C10: combine changes no builder but its receiver: the operands of
\* cssSelectorBuilder.combine are after the call what they were before it.
C10_CombineKeepsOperands ==
  [][last'.op = "combine" =>
       \A o \in DOMAIN heap :
         o # last'.self => heap'[o] = heap[o] /\ log'[o] = log[o]]_vars

C10_Witness ==
  /\ FacadeCombine
  /\ last.s1 # last.s2
  /\ heap[last.s1].prevTag = "element"
  /\ heap[last.s2].prevTag = "pseudoElement"

\* The seen-flags of a builder that holds exactly the categories of set S.
FlagsOf(S) ==
  [element |-> "element" \in S, id |-> "id" \in S,
   pseudoElement |-> "pseudoElement" \in S]

\* C11: a factory call raises nothing and returns a new builder that holds
\* the one formatted fragment, with lastKind the category and only that
\* category's seen-flag set, whatever builders were created before.
C11_FactoryFresh ==
  (IsAppend /\ last.fresh) =>
    /\ last.outcome = "ok"
    /\ last.self = Len(heap)
    /\ last.pre = [selectorsArr |-> <<>>, output |-> "",
                   uniqElObj |-> FlagsOf({}), prevTag |-> NoTag]
    /\ heap[last.self] =
         [selectorsArr |-> <<Rendered([tag |-> last.tag, value |-> last.value])>>,
          output |-> "",
          uniqElObj |-> FlagsOf({last.tag}),
          prevTag |-> last.tag]

C11_Witness ==
  /\ IsAppend /\ last.fresh
  /\ last.tag = "element"
  /\ last.self = 2
  /\ heap[1].uniqElObj.element

\* C12: a successful append returns its receiver and does nothing but add
\* the formatted fragment at the end, make the category lastKind and set the
\* category's seen-flag if it is a singleton.
C12_AppendEffect ==
  (IsAppend /\ last.outcome = "ok") =>
    /\ last.ret = "this"
    /\ heap[last.self] =
         [last.pre EXCEPT
            !.selectorsArr =
               Append(@, Rendered([tag |-> last.tag, value |-> last.value])),
            !.prevTag = last.tag,
            !.uniqElObj = IF last.tag \in Singletons
                            THEN [@ EXCEPT ![last.tag] = TRUE] ELSE @]

C12_Witness ==
  /\ IsAppend /\ last.outcome = "ok"
  /\ ~last.fresh
  /\ last.tag = "id"
  /\ last.pre.uniqElObj.element

\* C17: an append that raises leaves its receiver as it was, so stringify
\* returns after it what it returned before.
C17_FailedAppendNoChange ==
  (IsAppend /\ last.outcome # "ok") =>
    /\ heap[last.self] = last.pre
    /\ stringify(heap[last.self]).ret = stringify(last.pre).ret

C17_Witness ==
  /\ IsAppend
  /\ last.outcome = ErrUniq
  /\ last.tag = "pseudoElement"
  /\ Len(last.pre.selectorsArr) = 2

\* A builder a fragment factory created (not cssSelectorBuilder.combine).
FromFragmentFactory(o) == log[o] # <<>> /\ log[o][1].tag \in Tags

\* C18 as stated: on a builder created by a fragment factory each seen-flag
\* is set iff a fragment of that category is in the list, and lastKind is
\* the category of the last fragment in the list.
C18_BookkeepingMatchesList ==
  \A o \in Objs :
    FromFragmentFactory(o) =>
      /\ heap[o].uniqElObj = FlagsOf({log[o][i].tag : i \in DOMAIN log[o]})
      /\ heap[o].prevTag = log[o][Len(log[o])].tag

\* C18 amended: each seen-flag is set iff a fragment of that category is in
\* the list, and lastKind is the category of the fragment appended last,
\* which is the last entry of the list unless combine was called on the
\* builder after it.
C18_BookkeepingMatchesAppends ==
  \A o \in Objs :
    FromFragmentFactory(o) =>
      /\ heap[o].uniqElObj = FlagsOf({log[o][i].tag : i \in DOMAIN log[o]})
      /\ heap[o].prevTag = LastKind(log[o])
      /\ OnlyFragments(log[o]) => heap[o].prevTag = log[o][Len(log[o])].tag

C18_Witness ==
  /\ last.op = "combine" /\ ~last.fresh
  /\ FromFragmentFactory(last.self)
  /\ heap[last.self].prevTag = "id"
  /\ heap[last.self].uniqElObj.id

\* C19: an append of element, id or pseudoElement that both goes backward
\* and repeats its category raises the ordering error; the duplicate error
\* is raised only by a singleton category that is lastKind.
C19_OrderCheckedFirst ==
  IsAppend =>
    /\ (/\ last.tag \in Singletons
        /\ Seen(PreLog, last.tag)
        /\ orderTagList[last.tag] < orderTagList[LastKind(PreLog)])
         => last.outcome = ErrOrder
    /\ last.outcome = ErrUniq =>
         last.tag \in Singletons /\ LastKind(PreLog) = last.tag

C19_Witness ==
  /\ IsAppend
  /\ last.tag = "element"
  /\ Kinds(PreLog) = <<"element", "id">>
  /\ last.outcome = ErrOrder

\* C20: cssSelectorBuilder.combine returns a builder that holds the combined
\* string alone, with lastKind none and no seen-flag set; combine on any
\* builder raises nothing and leaves lastKind and the seen-flags alone; the
\* first append on a combine result succeeds and renders right after the
\* combined string.
C20_CombineResultUnchecked ==
  /\ FacadeCombine =>
       /\ Len(heap[last.self].selectorsArr) = 1
       /\ heap[last.self].prevTag = NoTag
       /\ heap[last.self].uniqElObj = FlagsOf({})
  /\ last.op = "combine" =>
       /\ last.outcome = "ok"
       /\ heap[last.self].prevTag = last.pre.prevTag
       /\ heap[last.self].uniqElObj = last.pre.uniqElObj
  /\ (IsAppend /\ Len(PreLog) = 1 /\ PreLog[1].tag = "combine") =>
       /\ last.outcome = "ok"
       /\ stringify(heap[last.self]).ret =
            PreLog[1].left \o " " \o PreLog[1].value \o " " \o PreLog[1].right
              \o Rendered([tag |-> last.tag, value |-> last.value])

C20_Witness ==
  /\ IsAppend
  /\ Len(PreLog) = 1 /\ PreLog[1].tag = "combine"
  /\ last.tag = "element"
  /\ heap[1].uniqElObj.id
  /\ stringify(heap[last.self]).ret = "#a + #aa"

\* The seller can serve the queue q holding n25 bills of 25 and n50 of 50:
\* every customer gets bill - 25 back out of bills received before.
RECURSIVE CanGiveChange(_, _, _)
CanGiveChange(q, n25, n50) ==
  IF q = <<>> THEN TRUE
  ELSE CASE Head(q) = 25 -> CanGiveChange(Tail(q), n25 + 1, n50)
         [] Head(q) = 50 -> n25 >= 1 /\ CanGiveChange(Tail(q), n25 - 1, n50 + 1)
         [] Head(q) = 100 ->
              \/ n25 >= 1 /\ n50 >= 1 /\ CanGiveChange(Tail(q), n25 - 1, n50 - 1)
              \/ n25 >= 3 /\ CanGiveChange(Tail(q), n25 - 3, n50)

\* C13: sellTickets returns true iff the seller, starting with no money, can
\* give every customer of the queue the exact change.
C13_SellTicketsIffChange ==
  (frame.fn = "sellTickets" /\ frame.pc = "done")
    => (frame.ret <=> CanGiveChange(frame.queue, 0, 0))

\* a <= b by country, then by city.
CityBefore(a, b) ==
  \/ StrGreater(b.country, a.country)
  \/ a.country = b.country /\ ~StrGreater(a.city, b.city)

Occurrences(arr, x) == Cardinality({i \in DOMAIN arr : arr[i] = x})

\* C14: sortCitiesArray returns the elements of arr ordered by country and,
\* for equal countries, by city, ascending.
C14_SortedByCountryThenCity ==
  (frame.fn = "sortCitiesArray" /\ frame.pc = "done") =>
    /\ \A x \in Cities : Occurrences(frame.ret, x) = Occurrences(frame.input, x)
    /\ \A i, j \in DOMAIN frame.ret : i < j => CityBefore(frame.ret[i], frame.ret[j])

\* Two flat objects are equal: the same keys with the same values.
EqualObjects(o1, o2) ==
  /\ KeySet(o1) = KeySet(o2)
  /\ \A k \in KeySet(o1) : Get(o1, k) = Get(o2, k)

\* C15: compareObjects returns true iff the two flat objects are equal,
\* whatever the order their keys were inserted in.
C15_CompareIffEqual ==
  (frame.fn = "compareObjects" /\ frame.pc = "done")
    => (frame.ret <=> EqualObjects(frame.obj1, frame.obj2))

\* The sum of the values of key k over the objects that have it.
RECURSIVE SumOf(_, _)
SumOf(objs, k) ==
  IF objs = <<>> THEN 0
  ELSE (IF HasKey(Head(objs), k) THEN Get(Head(objs), k) ELSE 0) + SumOf(Tail(objs), k)

====
